---- MODULE Spec2Model ----
(***************************************************************************)
(* A model of epf2parquet.py: the byte-at-a-time EPF header reader         *)
(* (read_header_info), the row generator (parse_epf / process_epf_line),   *)
(* the type converters (get_safe_type_converter) and the batching loop of  *)
(* stream_to_parquet_with_dask, driven either by the script's __main__     *)
(* block or by a direct call of the two functions.                         *)
(*                                                                         *)
(* A Python str is a sequence of one-character strings; a Python list is a *)
(* sequence; None is the empty sequence and a present optional value x is  *)
(* <<x>>.  A dict is a sequence of <<key, value>> pairs in insertion order.*)
(***************************************************************************)
EXTENDS Integers, Sequences, FiniteSets, TLC

VARIABLES
    file,             \* the text stream the functions read from
    pos,              \* number of characters already consumed by file.read(1)
    pc,               \* position of the control flow
    buffer,           \* the local `buffer` of the loop that is reading
    header_info,      \* the dict being built / returned by read_header_info
    line_count,       \* read_header_info's line_count
    gen,              \* state of the parse_epf generator
    batch_size,       \* stream_to_parquet_with_dask's batch_size
    converters,       \* the converters dict (column name -> type tag)
    current_batch,    \* rows of the batch being filled
    taken,            \* iterations completed of `for _ in range(batch_size)`
    all_batches,      \* the batches appended so far
    total_rows,       \* stream_to_parquet_with_dask's total_rows
    stdout,           \* messages printed so far
    caller,           \* who called stream_to_parquet_with_dask
    sink,             \* the to_parquet calls made: the rows and the outcome
    result            \* what the run ended with

vars == <<file, pos, pc, buffer, header_info, line_count, gen, batch_size,
          converters, current_batch, taken, all_batches, total_rows, stdout,
          caller, sink, result>>

----------------------------------------------------------------------------
(* Characters *)

SOH == "SOH"   \* '\x01', the field separator
STX == "STX"   \* '\x02', first character of the record terminator
LF  == "LF"    \* '\n', second character of the record terminator

delimiter == <<STX, LF>>

Lower == {"a","b","c","d","e","f","g","h","i","j","k","l","m",
          "n","o","p","q","r","s","t","u","v","w","x","y","z"}
Digit == {"0","1","2","3","4","5","6","7","8","9"}

DigitVal(c) ==
    CASE c = "0" -> 0 [] c = "1" -> 1 [] c = "2" -> 2 [] c = "3" -> 3
      [] c = "4" -> 4 [] c = "5" -> 5 [] c = "6" -> 6 [] c = "7" -> 7
      [] c = "8" -> 8 [] c = "9" -> 9

None == <<>>
Some(x) == <<x>>

----------------------------------------------------------------------------
(* Python str methods *)

EndsWith(s, suf) ==
    /\ Len(s) >= Len(suf)
    /\ SubSeq(s, Len(s) - Len(suf) + 1, Len(s)) = suf

StartsWith(s, c) == Len(s) >= 1 /\ s[1] = c

\* c in s, looked for at the start of s only
Contains_AtStart(s, c) == Len(s) >= 1 /\ s[1] = c

Contains(s, c) == \E i \in 1..Len(s) : s[i] = c

\* index of the first c in s, 0 when there is none
Find(s, c) ==
    IF Contains(s, c)
    THEN CHOOSE i \in 1..Len(s) : s[i] = c /\ \A j \in 1..(i-1) : s[j] # c
    ELSE 0

\* s.replace('\x02\n', '')
RECURSIVE StripDelimiter(_)
StripDelimiter(s) ==
    IF Len(s) < 2 THEN s
    ELSE IF s[1] = STX /\ s[2] = LF
         THEN StripDelimiter(SubSeq(s, 3, Len(s)))
         ELSE <<s[1]>> \o StripDelimiter(Tail(s))

\* s.split(c)
RECURSIVE Split(_, _)
Split(s, c) ==
    IF Find(s, c) = 0 THEN <<s>>
    ELSE <<SubSeq(s, 1, Find(s, c) - 1)>>
         \o Split(SubSeq(s, Find(s, c) + 1, Len(s)), c)

\* s.split(c, 1)
Split1(s, c) ==
    IF Find(s, c) = 0 THEN <<s>>
    ELSE <<SubSeq(s, 1, Find(s, c) - 1), SubSeq(s, Find(s, c) + 1, Len(s))>>

\* length of the longest prefix of s made of characters of S
RECURSIVE Run(_, _)
Run(s, S) ==
    IF s = <<>> \/ s[1] \notin S THEN 0 ELSE 1 + Run(Tail(s), S)

\* re.match(pat, s): None, or the groups <<1, 2, 3, 4, 5>> of
\* ^([a-z]+)([0-9]{4})([0-9]{2})([0-9]{2})\/([a-z_]+)
ReMatch(s) ==
    LET g  == Run(s, Lower)
        r  == SubSeq(s, g + 1, Len(s))
        n  == Run(SubSeq(r, 10, Len(r)), Lower \cup {"_"})
    IN  IF /\ g >= 1
           /\ Len(r) >= 10
           /\ \A i \in 1..8 : r[i] \in Digit
           /\ r[9] = "/"
           /\ n >= 1
        THEN Some(<<SubSeq(s, 1, g), SubSeq(r, 1, 4), SubSeq(r, 5, 6),
                    SubSeq(r, 7, 8), SubSeq(r, 10, 9 + n)>>)
        ELSE None

----------------------------------------------------------------------------
(* Python dict *)

Keys(d) == {d[i][1] : i \in 1..Len(d)}

Get(d, k) == d[CHOOSE i \in 1..Len(d) : d[i][1] = k][2]

\* d[k] = v: an existing key keeps its position
Put(d, k, v) ==
    IF k \in Keys(d)
    THEN [i \in 1..Len(d) |-> IF d[i][1] = k THEN <<k, v>> ELSE d[i]]
    ELSE Append(d, <<k, v>>)

----------------------------------------------------------------------------
(* Python int() and float() on a str, and the values a converter returns *)

\* the whitespace of the streams modelled: ' ' and '\n'
Space == {" ", LF}

\* the strip of leading and trailing whitespace that int() and float() apply
RECURSIVE LStrip(_)
LStrip(s) == IF s # <<>> /\ s[1] \in Space THEN LStrip(Tail(s)) ELSE s

RECURSIVE RStrip(_)
RStrip(s) ==
    IF s # <<>> /\ s[Len(s)] \in Space
    THEN RStrip(SubSeq(s, 1, Len(s) - 1)) ELSE s

Strip(s) == RStrip(LStrip(s))

HasSign(s) == s # <<>> /\ s[1] \in {"+", "-"}
Unsigned(s) == IF HasSign(s) THEN Tail(s) ELSE s
SignOf(s) == IF s # <<>> /\ s[1] = "-" THEN -1 ELSE 1

\* a digit string in which single underscores may separate digits
IsDigits(s) ==
    /\ s # <<>>
    /\ s[1] \in Digit
    /\ s[Len(s)] \in Digit
    /\ \A i \in 1..Len(s) : s[i] \in Digit \cup {"_"}
    /\ \A i \in 1..(Len(s) - 1) : ~(s[i] = "_" /\ s[i+1] = "_")

RECURSIVE DigitsValue(_, _)
DigitsValue(s, acc) ==
    IF s = <<>> THEN acc
    ELSE IF s[1] = "_" THEN DigitsValue(Tail(s), acc)
    ELSE DigitsValue(Tail(s), 10 * acc + DigitVal(s[1]))

NumDigits(s) == Cardinality({i \in 1..Len(s) : s[i] \in Digit})

\* int(value) raises ValueError
IntRaises(value) == ~IsDigits(Unsigned(Strip(value)))

\* int(value) when it does not raise
IntOf(value) ==
    SignOf(Strip(value)) * DigitsValue(Unsigned(Strip(value)), 0)

\* the integer part and the fraction part of the body of a decimal literal
IntPart(b)  == IF Find(b, ".") = 0 THEN b ELSE SubSeq(b, 1, Find(b, ".") - 1)
FracPart(b) == IF Find(b, ".") = 0 THEN <<>>
               ELSE SubSeq(b, Find(b, ".") + 1, Len(b))

\* float(value) raises ValueError (literals without exponent, inf or nan)
FloatRaises(value) ==
    LET b == Unsigned(Strip(value))
    IN  ~ /\ IntPart(b) # <<>> \/ FracPart(b) # <<>>
          /\ IntPart(b) = <<>> \/ IsDigits(IntPart(b))
          /\ FracPart(b) = <<>> \/ IsDigits(FracPart(b))

\* num / 10^scale without trailing zeros in the fraction
RECURSIVE Normalise(_, _)
Normalise(num, scale) ==
    IF scale > 0 /\ num % 10 = 0 THEN Normalise(num \div 10, scale - 1)
    ELSE <<num, scale>>

\* float(value) when it does not raise, as the decimal it is nearest to
FloatOf(value) ==
    LET b == Unsigned(Strip(value))
        m == DigitsValue(IntPart(b) \o FracPart(b), 0)
    IN  Normalise(SignOf(Strip(value)) * m, NumDigits(FracPart(b)))

NA == [na |-> TRUE]             \* pd.NA
PyStr(s)   == [str |-> s]
PyInt(n)   == [int |-> n]
PyFloat(x) == [float |-> x]
PyBool(b)  == [bool |-> b]

T_INTEGER == <<"I","N","T","E","G","E","R">>
T_BIGINT  == <<"B","I","G","I","N","T">>
T_REAL    == <<"R","E","A","L">>
T_DOUBLE  == <<"D","O","U","B","L","E">>
T_BOOLEAN == <<"B","O","O","L","E","A","N">>

convert_int(value) ==
    IF value = <<>> THEN NA
    ELSE IF IntRaises(value) THEN NA
    ELSE PyInt(IntOf(value))

convert_float(value) ==
    IF value = <<>> THEN NA
    ELSE IF FloatRaises(value) THEN NA
    ELSE PyFloat(FloatOf(value))

\* convert_bool taking the truth value of the string itself
convert_bool_OfStr(value) ==
    IF value = <<>> THEN NA ELSE PyBool(TRUE)

convert_bool(value) ==
    IF value = <<>> THEN NA
    ELSE IF IntRaises(value) THEN NA
    ELSE PyBool(IntOf(value) # 0)

\* get_safe_type_converter(db_type)(value), value being a str
Convert(db_type, value) ==
    IF db_type \in {T_INTEGER, T_BIGINT} THEN convert_int(value)
    ELSE IF db_type \in {T_REAL, T_DOUBLE} THEN convert_float(value)
    ELSE IF db_type = T_BOOLEAN THEN convert_bool(value)
    ELSE PyStr(value)

----------------------------------------------------------------------------
(* process_epf_line and the per-row conversion of stream_to_parquet_with_dask *)

primaryKey == <<"p","r","i","m","a","r","y","K","e","y">>
dbTypes    == <<"d","b","T","y","p","e","s">>
exportMode == <<"e","x","p","o","r","t","M","o","d","e">>

\* {column_names[index]: fields[index] for index in range(len(column_names))}
RECURSIVE RowDict(_, _, _, _)
RowDict(column_names, fields, index, acc) ==
    IF index > Len(column_names) THEN acc
    ELSE RowDict(column_names, fields, index + 1,
                 Put(acc, column_names[index], fields[index]))

\* the fields of a line, a line starting with '#' having none
FieldsOf_NotDirective(line) ==
    IF StartsWith(line, "#") THEN <<>>
    ELSE Split(StripDelimiter(line), SOH)

\* the fields process_epf_line splits its line into
FieldsOf(line) == Split(StripDelimiter(line), SOH)

\* process_epf_line accepting a line that has fields to spare
process_epf_line_AtLeast(line, column_names) ==
    IF Len(FieldsOf(line)) >= Len(column_names)
    THEN Some(RowDict(column_names, FieldsOf(line), 1, <<>>))
    ELSE None

\* process_epf_line(line, column_names): None, or the row
process_epf_line(line, column_names) ==
    IF Len(FieldsOf(line)) = Len(column_names)
    THEN Some(RowDict(column_names, FieldsOf(line), 1, <<>>))
    ELSE None

\* the message process_epf_line prints when it returns None
SkipMessage(line, column_names) ==
    <<"Skipped", Len(column_names), Len(FieldsOf(line))>>

\* `if row:` on what process_epf_line returned
Truthy(r) == r # None /\ r[1] # <<>>

\* the converters dict, each converter named by its type tag
RECURSIVE ConverterDict(_, _, _, _)
ConverterDict(column_names, types, i, acc) ==
    IF i > Len(column_names) THEN acc
    ELSE ConverterDict(column_names, types, i + 1,
                       Put(acc, column_names[i], types[i]))

\* the converters dict built without comparing the two lengths
MakeConverters_Zip(h) ==
    IF h.types # <<>>
    THEN ConverterDict(
             SubSeq(h.column_names, 1,
                    IF Len(h.types) < Len(h.column_names)
                    THEN Len(h.types) ELSE Len(h.column_names)),
             h.types, 1, <<>>)
    ELSE <<>>

\* the converters dict of stream_to_parquet_with_dask (lines 187-190)
MakeConverters(h) ==
    IF h.types # <<>> /\ Len(h.types) = Len(h.column_names)
    THEN ConverterDict(h.column_names, h.types, 1, <<>>)
    ELSE <<>>

\* cleaned_row built from row.items()
RECURSIVE CleanedRow(_, _, _, _)
CleanedRow(row, conv, i, acc) ==
    IF i > Len(row) THEN acc
    ELSE CleanedRow(row, conv, i + 1,
           Put(acc, row[i][1],
               IF row[i][1] \in Keys(conv)
               THEN Convert(Get(conv, row[i][1]), row[i][2])
               ELSE PyStr(row[i][2])))

----------------------------------------------------------------------------
(* The state machine *)

MainBatchSize == 50000

\* largest batch_size a direct caller passes
MaxBatch == 3

EOF == pos = Len(file)
\* file.read(1) returning once more the byte read_header_info read last,
\* on the first read of parse_epf
chunk_Reread == file[IF gen = "after_first" THEN pos ELSE pos + 1]

\* file.read(1) when the stream is not at its end
chunk == file[pos + 1]

NewHeader ==
    [column_names |-> <<>>, types |-> <<>>, primary_keys |-> <<>>,
     date |-> None, name |-> None, group |-> None, export_mode |-> None,
     first_data_line |-> <<>>]

InitWith(f) ==
    /\ file = f
    /\ pos = 0
    /\ pc = "seek"
    /\ buffer = <<>>
    /\ header_info = NewHeader
    /\ line_count = 0
    /\ gen = "none"
    /\ batch_size = 0
    /\ converters = <<>>
    /\ current_batch = <<>>
    /\ taken = 0
    /\ all_batches = <<>>
    /\ total_rows = 0
    /\ stdout = <<>>
    /\ caller = "none"
    /\ sink = <<>>
    /\ result = "running"

\* the marker line's effect with the dataset name taken from group 1
MarkerHeader_NameFromGroup1(h, line) ==
    LET tarjunk     == Split1(line, "#")[1]
        header_text == Split1(line, "#")[2]
        m           == ReMatch(tarjunk)
    IN  [h EXCEPT !.column_names = Split(header_text, SOH),
                  !.group = IF m # None THEN Some(m[1][1]) ELSE @,
                  !.name  = IF m # None THEN Some(m[1][1]) ELSE @,
                  !.date  = IF m # None
                            THEN Some(<<m[1][2], m[1][3], m[1][4]>>) ELSE @]

\* the marker line's effect on the header (lines 45-51)
MarkerHeader(h, line) ==
    LET tarjunk     == Split1(line, "#")[1]
        header_text == Split1(line, "#")[2]
        m           == ReMatch(tarjunk)
    IN  [h EXCEPT !.column_names = Split(header_text, SOH),
                  !.group = IF m # None THEN Some(m[1][1]) ELSE @,
                  !.name  = IF m # None THEN Some(m[1][5]) ELSE @,
                  !.date  = IF m # None
                            THEN Some(<<m[1][2], m[1][3], m[1][4]>>) ELSE @]

\* a metadata line's effect with the key ending at the last ':' of the line
DirectiveHeader_LastColon(h, line) ==
    LET t == Tail(line)
        k == IF Contains(t, ":")
             THEN CHOOSE i \in 1..Len(t) :
                     t[i] = ":" /\ \A j \in (i + 1)..Len(t) : t[j] # ":"
             ELSE 0
        v == IF k = 0 THEN <<t>>
             ELSE <<SubSeq(t, 1, k - 1), SubSeq(t, k + 1, Len(t))>>
    IN  IF Len(v) # 2 THEN h
        ELSE IF v[1] = primaryKey
             THEN [h EXCEPT !.primary_keys = Split(v[2], SOH)]
        ELSE IF v[1] = dbTypes
             THEN [h EXCEPT !.types = Split(v[2], SOH)]
        ELSE IF v[1] = exportMode
             THEN [h EXCEPT !.export_mode = Some(v[2])]
        ELSE h

\* a metadata line's effect on the header (lines 76-83)
DirectiveHeader(h, line) ==
    LET v == Split1(Tail(line), ":")
    IN  IF Len(v) # 2 THEN h
        ELSE IF v[1] = primaryKey
             THEN [h EXCEPT !.primary_keys = Split(v[2], SOH)]
        ELSE IF v[1] = dbTypes
             THEN [h EXCEPT !.types = Split(v[2], SOH)]
        ELSE IF v[1] = exportMode
             THEN [h EXCEPT !.export_mode = Some(v[2])]
        ELSE h

\* read_header_info returning the header it has when a loop meets EOF
HeaderAtEOF_Partial(loop) == IF loop = "meta" THEN "hdr_dict" ELSE "hdr_none"

\* read_header_info when file.read(1) returns '' in a loop: return None
\* (lines 39-40 and 66-67)
HeaderAtEOF(loop) == "hdr_none"

\* read_header_info, first loop: one file.read(1) and what follows it
SeekMarker ==
    /\ pc = "seek"
    /\ IF EOF
       THEN /\ pc' = HeaderAtEOF("seek")
            /\ UNCHANGED <<pos, buffer, header_info, line_count>>
       ELSE LET b    == Append(buffer, chunk)
                line == StripDelimiter(b)
            IN  /\ pos' = pos + 1
                /\ IF ~EndsWith(b, delimiter)
                   THEN /\ buffer' = b
                        /\ UNCHANGED <<pc, header_info, line_count>>
                   ELSE /\ buffer' = <<>>
                        /\ IF Contains(line, "#")
                           THEN /\ header_info' = MarkerHeader(header_info, line)
                                /\ line_count' = 1
                                /\ pc' = "meta"
                           ELSE UNCHANGED <<pc, header_info, line_count>>
    /\ UNCHANGED <<file, gen, batch_size, converters, current_batch, taken,
                   all_batches, total_rows, stdout, caller, sink, result>>

\* read_header_info, second loop: one file.read(1) and what follows it
ReadMetadata ==
    /\ pc = "meta"
    /\ IF EOF
       THEN /\ pc' = HeaderAtEOF("meta")
            /\ UNCHANGED <<pos, buffer, header_info, line_count>>
       ELSE LET b    == Append(buffer, chunk)
                line == StripDelimiter(b)
            IN  /\ pos' = pos + 1
                /\ IF ~EndsWith(b, delimiter)
                   THEN /\ buffer' = b
                        /\ UNCHANGED <<pc, header_info, line_count>>
                   ELSE /\ line_count' = line_count + 1
                        /\ IF StartsWith(line, "#")
                           THEN /\ header_info' = DirectiveHeader(header_info, line)
                                /\ buffer' = <<>>
                                /\ pc' = pc
                           ELSE /\ header_info' =
                                     [header_info EXCEPT !.first_data_line = line]
                                /\ buffer' = b
                                /\ pc' = "hdr_dict"
    /\ UNCHANGED <<file, gen, batch_size, converters, current_batch, taken,
                   all_batches, total_rows, stdout, caller, sink, result>>

\* stream_to_parquet_with_dask up to its first next(stream) (lines 186-202)
Enter(bs, who, out) ==
    /\ batch_size' = bs
    /\ caller' = who
    /\ converters' = MakeConverters(header_info)
    /\ all_batches' = <<>>
    /\ total_rows' = 0
    /\ gen' = "start"
    /\ current_batch' = <<>>
    /\ taken' = 0
    /\ stdout' = out
    /\ pc' = IF bs = 0 THEN "flush" ELSE "batch"
    /\ UNCHANGED <<file, pos, buffer, header_info, line_count, sink, result>>

\* the __main__ block after read_header_info has returned (lines 294-307)
Main ==
    /\ pc \in {"hdr_none", "hdr_dict"}
    /\ IF pc = "hdr_none"
       THEN /\ stdout' = Append(stdout, <<"Error">>)
            /\ result' = "exit1"
            /\ pc' = "done"
            /\ UNCHANGED <<file, pos, buffer, header_info, line_count, gen,
                           batch_size, converters, current_batch, taken,
                           all_batches, total_rows, caller, sink>>
       ELSE IF header_info.date = None
       THEN /\ result' = "TypeError"     \* '-'.join(None)
            /\ pc' = "done"
            /\ UNCHANGED <<file, pos, buffer, header_info, line_count, gen,
                           batch_size, converters, current_batch, taken,
                           all_batches, total_rows, stdout, caller, sink>>
       ELSE Enter(MainBatchSize, "main",
                  stdout \o << <<"Processing", header_info.name, header_info.date>>,
                               <<"Found", Len(header_info.column_names),
                                 Len(header_info.primary_keys)>> >>)

\* a caller other than __main__ passes the header on with its own batch_size
Call ==
    /\ pc = "hdr_dict"
    /\ \E bs \in 0..MaxBatch : Enter(bs, "call", stdout)

\* the batching loop leaving its for loop one row late
Accept_OneMore(row) ==
    /\ current_batch' =
           Append(current_batch, CleanedRow(row, converters, 1, <<>>))
    /\ taken' = taken + 1
    /\ pc' = IF taken + 1 > batch_size THEN "flush" ELSE "batch"

\* the batching loop receives a row from next(stream) (lines 204-215)
Accept(row) ==
    /\ current_batch' =
           Append(current_batch, CleanedRow(row, converters, 1, <<>>))
    /\ taken' = taken + 1
    /\ pc' = IF taken + 1 = batch_size THEN "flush" ELSE "batch"

\* next(stream) raises StopIteration and the for loop goes on
Break_Continue ==
    /\ pc' = "batch"
    /\ UNCHANGED <<current_batch, taken>>

\* next(stream) raises StopIteration: the for loop breaks (lines 216-217)
Break ==
    /\ pc' = "flush"
    /\ UNCHANGED <<current_batch, taken>>

\* the first next(stream): parse_epf up to its first file.read(1)
\* (lines 122-132)
ParseFirst ==
    /\ pc = "batch"
    /\ gen = "start"
    /\ LET line == header_info.first_data_line \o delimiter
           row  == process_epf_line(line, header_info.column_names)
       IN  IF header_info.first_data_line = <<>>
           THEN /\ gen' = "reading"
                /\ buffer' = <<>>
                /\ UNCHANGED <<stdout, current_batch, taken, pc>>
           ELSE IF Truthy(row)
           THEN /\ gen' = "after_first"
                /\ Accept(row[1])
                /\ UNCHANGED <<stdout, buffer>>
           ELSE /\ gen' = "reading"
                /\ buffer' = <<>>
                /\ stdout' = IF row = None
                             THEN Append(stdout,
                                    SkipMessage(line, header_info.column_names))
                             ELSE stdout
                /\ UNCHANGED <<current_batch, taken, pc>>
    /\ UNCHANGED <<file, pos, header_info, line_count, batch_size, converters,
                   all_batches, total_rows, caller, sink, result>>

\* parse_epf's loop: one file.read(1) and what follows it (lines 133-146);
\* a generator resumed after a yield first runs line 131 or line 146
ParseRead ==
    /\ pc = "batch"
    /\ gen \in {"after_first", "after_row", "reading"}
    /\ LET buf  == IF gen = "reading" THEN buffer ELSE <<>>
           b    == IF EOF THEN buf ELSE Append(buf, chunk)
           row  == process_epf_line(b, header_info.column_names)
           said == IF row = None
                   THEN Append(stdout,
                               SkipMessage(b, header_info.column_names))
                   ELSE stdout
       IN  IF EOF
           THEN /\ UNCHANGED pos
                /\ buffer' = buf
                /\ IF buf = <<>>
                   THEN /\ gen' = "finished"
                        /\ Break
                        /\ UNCHANGED stdout
                   ELSE IF Truthy(row)
                   THEN /\ gen' = "after_tail"
                        /\ Accept(row[1])
                        /\ UNCHANGED stdout
                   ELSE /\ gen' = "finished"
                        /\ Break
                        /\ stdout' = said
           ELSE /\ pos' = pos + 1
                /\ IF ~EndsWith(b, delimiter)
                   THEN /\ buffer' = b
                        /\ gen' = "reading"
                        /\ UNCHANGED <<stdout, current_batch, taken, pc>>
                   ELSE IF Truthy(row)
                   THEN /\ buffer' = b
                        /\ gen' = "after_row"
                        /\ Accept(row[1])
                        /\ UNCHANGED stdout
                   ELSE /\ buffer' = <<>>
                        /\ gen' = "reading"
                        /\ stdout' = said
                        /\ UNCHANGED <<current_batch, taken, pc>>
    /\ UNCHANGED <<file, header_info, line_count, batch_size, converters,
                   all_batches, total_rows, caller, sink, result>>

\* next(stream) on a generator that has nothing more to yield: resumed after
\* the row of the unterminated tail it breaks (line 140), and once it has
\* returned every next raises StopIteration
StopIter ==
    /\ pc = "batch"
    /\ gen \in {"after_tail", "finished"}
    /\ gen' = "finished"
    /\ Break
    /\ UNCHANGED <<file, pos, buffer, header_info, line_count, batch_size,
                   converters, all_batches, total_rows, stdout, caller, sink, result>>

\* after the for loop (lines 219-229), and back to its start (lines 199-202)
FlushBatch ==
    /\ pc = "flush"
    /\ IF current_batch # <<>>
       THEN /\ all_batches' = Append(all_batches, current_batch)
            /\ total_rows' = total_rows + Len(current_batch)
            /\ current_batch' = <<>>
            /\ taken' = 0
            /\ pc' = IF batch_size = 0 THEN "flush" ELSE "batch"
       ELSE /\ pc' = "finish"
            /\ UNCHANGED <<all_batches, total_rows, current_batch, taken>>
    /\ UNCHANGED <<file, pos, buffer, header_info, line_count, gen, batch_size,
                   converters, stdout, caller, sink, result>>

\* pd.concat(all_batches, ignore_index=True) keeping only the last batch
combined_df_Last(batches) == batches[Len(batches)]

\* pd.concat(all_batches, ignore_index=True) (line 234)
RECURSIVE combined_df(_)
combined_df(batches) ==
    IF batches = <<>> THEN <<>>
    ELSE Head(batches) \o combined_df(Tail(batches))

\* after the while loop (lines 231-285), and back in __main__ (lines 309-310);
\* ddf.to_parquet either writes the combined rows or raises
Finish ==
    /\ pc = "finish"
    /\ pc' = "done"
    /\ IF all_batches # <<>>
       THEN \E ok \in BOOLEAN :
            /\ sink' = Append(sink, [rows |-> combined_df(all_batches),
                                     ok |-> ok])
            /\ IF ok
               THEN /\ result' = "written"
                    /\ stdout' = stdout \o << <<"Processed", total_rows>> >>
                                 \o IF caller = "main"
                                    THEN << <<"Successfully", header_info.name,
                                              total_rows>> >>
                                    ELSE <<>>
               ELSE /\ result' = "sink_error"
                    /\ UNCHANGED stdout
       ELSE /\ result' = "nodata"
            /\ stdout' = Append(stdout, <<"NoData">>)
            /\ UNCHANGED sink
    /\ UNCHANGED <<file, pos, buffer, header_info, line_count, gen, batch_size,
                   converters, current_batch, taken, all_batches, total_rows,
                   caller>>

Next ==
    \/ SeekMarker
    \/ ReadMetadata
    \/ Main
    \/ Call
    \/ ParseFirst
    \/ ParseRead
    \/ StopIter
    \/ FlushBatch
    \/ Finish

----------------------------------------------------------------------------
(* Input streams and specifications *)

Terminated(line) == line \o delimiter

RECURSIVE Join(_)
Join(lines) ==
    IF lines = <<>> THEN <<>>
    ELSE Terminated(Head(lines)) \o Join(Tail(lines))

\* sequences of at most n elements of S
RECURSIVE SeqsUpTo(_, _)
SeqsUpTo(S, n) ==
    IF n = 0 THEN {<<>>}
    ELSE SeqsUpTo(S, n - 1)
         \cup {Append(q, x) : q \in {r \in SeqsUpTo(S, n - 1) : Len(r) = n - 1},
                              x \in S}

Provenance == <<"g","2","0","2","4","0","1","0","1","/","t">>

L_Empty     == <<>>
L_Junk      == <<"x">>
L_Marker1   == <<"#","a">>
L_Marker2   == Provenance \o <<"#","a",SOH,"b">>
L_Types1    == <<"#">> \o dbTypes \o <<":">> \o T_INTEGER
L_Data2     == <<"1",SOH,"x">>

LineSet == {L_Empty, L_Junk, L_Marker1, L_Marker2, L_Types1, L_Data2}
TailSet == {<<>>, L_Junk, L_Data2}

\* most terminated lines of a stream
MaxLines == 3

\* terminated lines of LineSet followed by a possibly empty unterminated tail
Streams ==
    {Join(ls) \o t : ls \in SeqsUpTo(LineSet, MaxLines), t \in TailSet}

Init == \E f \in Streams : InitWith(f)

Spec == Init /\ [][Next]_vars

\* the steps that read one byte or meet the end of the stream, and the states
\* in which one of them can be taken: each of them changes pos, pc or gen
ReadStep ==
    SeekMarker \/ ReadMetadata \/ ParseFirst \/ ParseRead

Reading ==
    \/ pc \in {"seek", "meta"}
    \/ pc = "batch" /\ gen \in {"start", "after_first", "after_row", "reading"}

\* the steps between the reads
ControlStep ==
    Main \/ Call \/ StopIter \/ FlushBatch \/ Finish

\* the program is one thread of control: a step that can be taken is taken.
\* The second conjunct is WF_vars(ReadStep) with ENABLED <<ReadStep>>_vars
\* written out as Reading
FairSpec ==
    /\ Init /\ [][Next]_vars
    /\ WF_vars(ControlStep)
    /\ ([]<>(~Reading) \/ []<><<ReadStep>>_vars)

\* Streams for the batching loop: a one-column marker line with provenance
\* and up to MaxRows data lines, line i holding the digit i in one field or,
\* malformed, in two; the last line may lack its terminator
MaxRows == 5

DigitChar(i) == CHOOSE c \in Digit : DigitVal(c) = i

BatchMarker == Provenance \o <<"#","a">>

BatchLine(i, good) ==
    IF good THEN <<DigitChar(i)>> ELSE <<DigitChar(i), SOH, DigitChar(i)>>

BatchStreams ==
    {LET body == Join(<<BatchMarker>> \o [i \in 1..k |-> BatchLine(i, g[i])])
     IN  IF cut THEN SubSeq(body, 1, Len(body) - 2) ELSE body :
        k \in 0..MaxRows, g \in [1..MaxRows -> BOOLEAN], cut \in BOOLEAN}

InitBatch == \E f \in BatchStreams : InitWith(f)

\* Streams for the converters: two columns with provenance, a dbTypes line
\* declaring a tag of CoerceTags for the first column, and one data line
\* whose first field is any string of at most MaxFieldLen characters of
\* FieldChars
MaxFieldLen == 3

FieldChars == {"0", "1", "-", "+", " ", "_", ".", "a"}

T_STRING  == <<"S","T","R","I","N","G">>
T_integer == <<"i","n","t","e","g","e","r">>

CoerceTags ==
    {T_INTEGER, T_BIGINT, T_REAL, T_DOUBLE, T_BOOLEAN, T_STRING, T_integer}

CoerceMarker == Provenance \o <<"#","v",SOH,"k">>

CoerceStreams ==
    {Join(<<CoerceMarker,
            <<"#">> \o dbTypes \o <<":">> \o tag \o <<SOH>> \o T_STRING,
            value \o <<SOH, "r">> >>) :
        tag \in CoerceTags, value \in SeqsUpTo(FieldChars, MaxFieldLen)}

InitCoerce == \E f \in CoerceStreams : InitWith(f)

SpecCoerce == InitCoerce /\ [][Next]_vars

\* The stream of the specification's example, and the streams that end at
\* any earlier character of it
ExampleMarker ==
    <<"d","e","m","o","2","0","2","4","0","1","0","1","/",
      "w","i","d","g","e","t","s","#",
      "i","d",SOH,"n","a","m","e",SOH,"q","t","y">>

ExampleTypes ==
    <<"#">> \o dbTypes \o <<":">>
        \o T_INTEGER \o <<SOH>> \o T_STRING \o <<SOH>> \o T_INTEGER

ExampleData == <<"1",SOH,"A","l","p","h","a",SOH>>

ExampleStream == Join(<<ExampleMarker, ExampleTypes, ExampleData>>)

InitExample ==
    \E n \in 0..Len(ExampleStream) : InitWith(SubSeq(ExampleStream, 1, n))

SpecExample == InitExample /\ [][Next]_vars

SpecBatch == InitBatch /\ [][Next]_vars

\* Streams for the header: a marker line with two columns, with the same
\* column twice, or after a line without '#'; up to MaxDirectives lines
\* starting with '#'; and none, one or two data lines
MaxDirectives == 2

L_MarkerDup  == <<"#","a",SOH,"a">>
D_PrimaryKey == <<"#">> \o primaryKey \o <<":","a">>
D_ForeignKey == <<"#">> \o primaryKey \o <<":","z",SOH,"a">>
D_Types2     == <<"#">> \o dbTypes \o <<":">> \o T_REAL \o <<SOH>> \o T_BIGINT
D_ExportMode == <<"#">> \o exportMode \o <<":","F",":","1">>
D_Unknown    == <<"#","z","z",":","1">>
D_NoColon    == <<"#","n">>

MetaHeads == {<<L_Marker2>>, <<L_MarkerDup>>, <<L_Junk, L_Marker2>>}

DirectiveSet ==
    {D_PrimaryKey, D_ForeignKey, D_Types2, D_ExportMode, D_Unknown, D_NoColon}

MetaData == {<<>>, << <<"1",SOH,"0">> >>, << <<"7">> >>,
             << <<"1",SOH,"0">>, <<"7">> >>}

MetaStreams ==
    {Join(h \o ds \o data) :
        h \in MetaHeads, ds \in SeqsUpTo(DirectiveSet, MaxDirectives),
        data \in MetaData}

InitMeta == \E f \in MetaStreams : InitWith(f)

SpecMeta == InitMeta /\ [][Next]_vars

----------------------------------------------------------------------------
(* The stream as the specification describes it: logical lines, the marker *)
(* line, the first data line, and the rows the data lines stand for        *)

\* index of the first record terminator in f, 0 when there is none
FirstTerminator(f) ==
    IF \E i \in 1..(Len(f) - 1) : f[i] = STX /\ f[i+1] = LF
    THEN CHOOSE i \in 1..(Len(f) - 1) :
            /\ f[i] = STX /\ f[i+1] = LF
            /\ \A j \in 1..(i-1) : ~(f[j] = STX /\ f[j+1] = LF)
    ELSE 0

\* the logical lines of f, a non-empty unterminated tail being the last one
RECURSIVE LogicalLines(_)
LogicalLines(f) ==
    IF FirstTerminator(f) = 0
    THEN IF f = <<>> THEN <<>> ELSE <<f>>
    ELSE <<SubSeq(f, 1, FirstTerminator(f) - 1)>>
         \o LogicalLines(SubSeq(f, FirstTerminator(f) + 2, Len(f)))

HasTail(f) == f # <<>> /\ ~EndsWith(f, delimiter)

\* index of the marker line among the lines ls, 0 when there is none
MarkerIndex(ls) ==
    IF \E i \in 1..Len(ls) : Contains(ls[i], "#")
    THEN CHOOSE i \in 1..Len(ls) :
            /\ Contains(ls[i], "#")
            /\ \A j \in 1..(i-1) : ~Contains(ls[j], "#")
    ELSE 0

\* index of the first data line among the lines ls, 0 when there is none
FirstDataIndex(ls) ==
    LET m == MarkerIndex(ls)
    IN  IF m > 0 /\ \E i \in (m+1)..Len(ls) : ~StartsWith(ls[i], "#")
        THEN CHOOSE i \in (m+1)..Len(ls) :
                /\ ~StartsWith(ls[i], "#")
                /\ \A j \in (m+1)..(i-1) : StartsWith(ls[j], "#")
        ELSE 0

\* the logical data lines of f
DataLines(f) ==
    LET ls == LogicalLines(f)
    IN  IF FirstDataIndex(ls) = 0 THEN <<>>
        ELSE SubSeq(ls, FirstDataIndex(ls), Len(ls))

\* number of fields of a logical line
FieldCount(line) == Len(Split(line, SOH))

WellFormedLine(line) == FieldCount(line) = Len(header_info.column_names)

\* the row a well-formed line stands for under the returned header: column i
\* holds field i, converted when every column has a declared type
RowOf(line) ==
    LET h == header_info
        typed == h.types # <<>> /\ Len(h.types) = Len(h.column_names)
    IN  [i \in 1..Len(h.column_names) |->
            <<h.column_names[i],
              IF typed THEN Convert(h.types[i], Split(line, SOH)[i])
              ELSE PyStr(Split(line, SOH)[i])>>]

RECURSIVE SelectWellFormed(_)
SelectWellFormed(lines) ==
    IF lines = <<>> THEN <<>>
    ELSE (IF WellFormedLine(Head(lines)) THEN <<RowOf(Head(lines))>> ELSE <<>>)
         \o SelectWellFormed(Tail(lines))

\* the rows of the well-formed lines among `lines`, in order
RowsOf(lines) == SelectWellFormed(lines)

RECURSIVE Flatten(_)
Flatten(batches) ==
    IF batches = <<>> THEN <<>> ELSE Head(batches) \o Flatten(Tail(batches))

\* the rows placed in batches so far, in the order they were placed
Emitted == Flatten(all_batches) \o current_batch

\* the field-count diagnostics printed so far, in order
Skips == SelectSeq(stdout, LAMBDA m : m[1] = "Skipped")

\* the run went through stream_to_parquet_with_dask and returned from it
Completed == pc = "done" /\ result \in {"written", "nodata"}

\* a is b with some elements left out
RECURSIVE IsSubseq(_, _)
IsSubseq(a, b) ==
    IF a = <<>> THEN TRUE
    ELSE IF b = <<>> THEN FALSE
    ELSE IF Head(a) = Head(b) THEN IsSubseq(Tail(a), Tail(b))
    ELSE IsSubseq(a, Tail(b))

\* the last n elements of q
LastN(q, n) == SubSeq(q, Len(q) - n + 1, Len(q))

----------------------------------------------------------------------------
(* Claims *)

\* C1: at the end of a run whose header extraction succeeded, the rows placed
\* in batches plus the lines skipped with a field-count diagnostic are as many
\* as the logical data lines of the stream.
C1_RowsPlusSkipsAreDataLines ==
    (Completed /\ batch_size >= 1) =>
        Len(Emitted) + Len(Skips) = Len(DataLines(file))

\* C2: the line that ended header parsing is the first line decoded: once
\* parse_epf has started, its row is the first row emitted or its diagnostic
\* is the first one printed, also when the line is empty.
C2_FirstDataLineDecoded ==
    gen \notin {"none", "start"} =>
        IF WellFormedLine(header_info.first_data_line)
        THEN Emitted # <<>> /\ Emitted[1] = RowOf(header_info.first_data_line)
        ELSE Skips # <<>> /\
             Skips[1] = <<"Skipped", Len(header_info.column_names),
                          FieldCount(header_info.first_data_line)>>

\* the stream is a marker line, metadata lines and data lines that all have
\* as many fields as the marker line names columns
WellFormedInput ==
    LET ls == LogicalLines(file)
    IN  /\ MarkerIndex(ls) = 1
        /\ \A i \in 1..Len(DataLines(file)) :
              FieldCount(DataLines(file)[i])
                  = FieldCount(Split1(ls[1], "#")[2])

\* C3: on a well-formed input with N data lines the run emits exactly the N
\* rows of these lines, in order, and skips nothing.
C3_WellFormedInputAllRows ==
    (WellFormedInput /\ Completed /\ batch_size >= 1) =>
        /\ Emitted = RowsOf(DataLines(file))
        /\ Len(Emitted) = Len(DataLines(file))
        /\ Skips = <<>>

\* C4: a data line with the wrong number of fields is in no batch and does
\* not stop the stream: at the end of the run only well-formed lines have
\* rows, the whole stream was read, and the well-formed data lines after the
\* malformed one are the last rows emitted, in order.
C4_MalformedLineSkipped ==
    (Completed /\ batch_size >= 1) =>
        \A i \in 1..Len(DataLines(file)) :
            ~WellFormedLine(DataLines(file)[i]) =>
                LET later == RowsOf(SubSeq(DataLines(file), i + 1,
                                           Len(DataLines(file))))
                IN  /\ pos = Len(file)
                    /\ IsSubseq(Emitted, RowsOf(DataLines(file)))
                    /\ Len(Emitted) >= Len(later)
                    /\ LastN(Emitted, Len(later)) = later

\* C4 witness: a run ended in which a malformed data line was followed by a
\* well-formed one whose row was emitted.
C4_Witness ==
    /\ Completed
    /\ batch_size >= 1
    /\ \E i \in 1..Len(DataLines(file)) :
          /\ ~WellFormedLine(DataLines(file)[i])
          /\ i > 1
          /\ i < Len(DataLines(file))
          /\ WellFormedLine(DataLines(file)[i + 1])
    /\ Len(Emitted) >= 2

\* no logical line of the stream has a '#', or every logical line after the
\* marker line starts with '#'
HeaderIncompleteInput ==
    \/ MarkerIndex(LogicalLines(file)) = 0
    \/ FirstDataIndex(LogicalLines(file)) = 0

\* C5: when the stream ends before a marker line, or after it with nothing
\* but metadata lines, read_header_info returns None, the run ends with the
\* error exit, and no row and no batch is ever produced.
C5_HeaderIncomplete ==
    HeaderIncompleteInput =>
        /\ pc \in {"seek", "meta", "hdr_none", "done"}
        /\ pc = "done" => result = "exit1"
        /\ gen = "none"
        /\ Emitted = <<>>
        /\ all_batches = <<>>

\* C5 witness: read_header_info has returned None at an end of stream that
\* came after the marker line and a dbTypes line.
C5_Witness ==
    /\ HeaderIncompleteInput
    /\ pc = "done"
    /\ result = "exit1"
    /\ header_info.column_names # <<>>
    /\ header_info.types # <<>>

\* C6: an unterminated non-empty tail is handed as a last logical line to
\* whoever is reading: when it is the first line after the marker and
\* metadata lines that does not start with '#', read_header_info returns the
\* header with that line as first data line; when the row generator is
\* reading, the tail is decoded last.
C6_TailDelivered ==
    LET ls == LogicalLines(file)
    IN  /\ (HasTail(file) /\ FirstDataIndex(ls) > 0
              /\ pc \notin {"seek", "meta"}) =>
                /\ pc # "hdr_none"
                /\ result # "exit1"
                /\ header_info.first_data_line = ls[FirstDataIndex(ls)]
        /\ (HasTail(file) /\ Completed /\ batch_size >= 1) =>
                IF WellFormedLine(ls[Len(ls)])
                THEN Emitted # <<>>
                     /\ Emitted[Len(Emitted)] = RowOf(ls[Len(ls)])
                ELSE Skips # <<>>
                     /\ Skips[Len(Skips)] =
                            <<"Skipped", Len(header_info.column_names),
                              FieldCount(ls[Len(ls)])>>

\* the data lines parse_epf hands to process_epf_line
DecodedLines ==
    IF header_info.first_data_line = <<>>
    THEN Tail(DataLines(file)) ELSE DataLines(file)

\* C7: with batch_size >= 1 and R >= 1 rows emitted, the run ends with
\* ceil(R / batch_size) batches, all full but the last, the last holding
\* 1..batch_size rows, none empty, and together the rows in input order;
\* while the run lasts no batch is empty or over batch_size.
C7_BatchSizes ==
    LET n == Len(all_batches)
        R == Len(Flatten(all_batches))
    IN  /\ \A k \in 1..n : Len(all_batches[k]) \in 1..batch_size
        /\ (pc = "done" /\ batch_size >= 1 /\ R >= 1) =>
              /\ n = (R + batch_size - 1) \div batch_size
              /\ \A k \in 1..(n - 1) : Len(all_batches[k]) = batch_size
              /\ Len(all_batches[n]) \in 1..batch_size
              /\ Flatten(all_batches) = RowsOf(DecodedLines)

\* C7 witness: batch_size = 2 and 5 rows ended in batches of 2, 2 and 1.
C7_Witness ==
    /\ pc = "done"
    /\ batch_size = 2
    /\ Len(all_batches) = 3
    /\ Len(all_batches[1]) = 2
    /\ Len(all_batches[2]) = 2
    /\ Len(all_batches[3]) = 1

\* the row of a well-formed line with every field left as its raw string
RawRowOf(line) ==
    [i \in 1..Len(header_info.column_names) |->
        <<header_info.column_names[i], PyStr(Split(line, SOH)[i])>>]

RECURSIVE RawRowsOf(_)
RawRowsOf(lines) ==
    IF lines = <<>> THEN <<>>
    ELSE (IF WellFormedLine(Head(lines)) THEN <<RawRowOf(Head(lines))>>
          ELSE <<>>)
         \o RawRowsOf(Tail(lines))

\* no dbTypes line was read, or it declares a number of types that is not the
\* number of columns
NoUsableTypes ==
    \/ header_info.types = <<>>
    \/ Len(header_info.types) # Len(header_info.column_names)

\* C8: without a dbTypes line, or with one whose length is not the number of
\* columns, no converter exists and every emitted row holds the raw strings
\* of its line; the run goes on to its end and emits the rows of all the
\* lines it decodes.
C8_NoCoercionWithoutTypes ==
    (gen # "none" /\ NoUsableTypes) =>
        /\ converters = <<>>
        /\ IsSubseq(Emitted, RawRowsOf(DataLines(file)))
        /\ pc = "done" => result \in {"written", "nodata", "sink_error"}
        /\ (Completed /\ batch_size >= 1) =>
              Emitted = RawRowsOf(DecodedLines)

\* C8 witness: a run ended with one declared type for two columns, and the
\* field "1" of the INTEGER column was emitted as the string "1".
C8_Witness ==
    /\ Completed
    /\ Len(header_info.types) = 1
    /\ header_info.types[1] = T_INTEGER
    /\ Len(header_info.column_names) = 2
    /\ Emitted # <<>>
    /\ Emitted[1][1][2] = PyStr(<<"1">>)

\* A decimal integer literal as int() reads it: whitespace around it, an
\* optional sign, and digits that single underscores may separate
NonSpace(v) == {i \in 1..Len(v) : v[i] \notin {" ", LF}}

Core(v) ==
    IF NonSpace(v) = {} THEN <<>>
    ELSE SubSeq(v, CHOOSE i \in NonSpace(v) : \A j \in NonSpace(v) : i <= j,
                   CHOOSE i \in NonSpace(v) : \A j \in NonSpace(v) : i >= j)

Body(v) ==
    IF Core(v) # <<>> /\ Core(v)[1] \in {"+", "-"}
    THEN SubSeq(Core(v), 2, Len(Core(v))) ELSE Core(v)

IsIntegerLiteral(v) ==
    LET b == Body(v)
    IN  /\ b # <<>>
        /\ \A i \in 1..Len(b) :
              \/ b[i] \in Digit
              \/ /\ b[i] = "_"
                 /\ 1 < i /\ i < Len(b)
                 /\ b[i-1] \in Digit /\ b[i+1] \in Digit

RECURSIVE Pow10(_)
Pow10(n) == IF n = 0 THEN 1 ELSE 10 * Pow10(n - 1)

RECURSIVE SumOver(_, _)
SumOver(S, f) ==
    IF S = {} THEN 0
    ELSE LET x == CHOOSE y \in S : TRUE IN f[x] + SumOver(S \ {x}, f)

\* the integer an integer literal denotes
LiteralValue(v) ==
    LET b      == Body(v)
        digits == {i \in 1..Len(b) : b[i] \in Digit}
        weight == [i \in digits |->
                     DigitVal(b[i])
                       * Pow10(Cardinality({j \in digits : j > i}))]
    IN  (IF Core(v)[1] = "-" THEN -1 ELSE 1) * SumOver(digits, weight)

\* what the INTEGER, BIGINT and BOOLEAN columns are to hold for a raw field
IntegerColumn(v) ==
    IF v = <<>> THEN NA
    ELSE IF IsIntegerLiteral(v) THEN PyInt(LiteralValue(v))
    ELSE NA

BooleanColumn(v) ==
    IF v = <<>> THEN NA
    ELSE IF IsIntegerLiteral(v) THEN PyBool(LiteralValue(v) # 0)
    ELSE NA

\* the declared types are in use and the first data line was decoded into
\* the first row
FirstRowTyped ==
    /\ Completed
    /\ batch_size >= 1
    /\ ~NoUsableTypes
    /\ header_info.first_data_line # <<>>
    /\ WellFormedLine(header_info.first_data_line)

\* field i of the first data line, its declared type, its emitted value
RawField(i) == Split(header_info.first_data_line, SOH)[i]
DeclaredType(i) == header_info.types[i]
EmittedValue(i) == Emitted[1][i][2]

\* C9 as stated: INTEGER and BIGINT columns hold null, the integer or null;
\* BOOLEAN columns null, false, true or null; a column with any other tag
\* holds the raw string; the row is emitted whatever its fields are.
C9_CoercionAsStated ==
    FirstRowTyped =>
        /\ Emitted # <<>>
        /\ Len(Emitted[1]) = Len(header_info.column_names)
        /\ \A i \in 1..Len(header_info.column_names) :
              IF DeclaredType(i) \in {T_INTEGER, T_BIGINT}
              THEN EmittedValue(i) = IntegerColumn(RawField(i))
              ELSE IF DeclaredType(i) = T_BOOLEAN
              THEN EmittedValue(i) = BooleanColumn(RawField(i))
              ELSE EmittedValue(i) = PyStr(RawField(i))

\* C9 amended: as stated, the raw string being kept for every tag other than
\* INTEGER, BIGINT, REAL, DOUBLE and BOOLEAN.
C9_Coercion ==
    FirstRowTyped =>
        /\ Emitted # <<>>
        /\ Len(Emitted[1]) = Len(header_info.column_names)
        /\ \A i \in 1..Len(header_info.column_names) :
              IF DeclaredType(i) \in {T_INTEGER, T_BIGINT}
              THEN EmittedValue(i) = IntegerColumn(RawField(i))
              ELSE IF DeclaredType(i) = T_BOOLEAN
              THEN EmittedValue(i) = BooleanColumn(RawField(i))
              ELSE IF DeclaredType(i) \in {T_REAL, T_DOUBLE}
              THEN TRUE
              ELSE EmittedValue(i) = PyStr(RawField(i))

\* C9 witness: a BOOLEAN field "a" that is no integer was emitted as null in
\* a row that still carries its other field.
C9_Witness ==
    /\ FirstRowTyped
    /\ DeclaredType(1) = T_BOOLEAN
    /\ RawField(1) = <<"a">>
    /\ Len(Emitted) = 1
    /\ EmittedValue(1) = NA
    /\ Emitted[1][2] = << <<"k">>, PyStr(<<"r">>) >>

\* the marker line of the stream, once read_header_info is past it
MarkerLine == LogicalLines(file)[MarkerIndex(LogicalLines(file))]

FirstHash(line) ==
    CHOOSE i \in 1..Len(line) :
        line[i] = "#" /\ \A j \in 1..(i - 1) : line[j] # "#"

C10_id   == <<"i","d">>
C10_name == <<"n","a","m","e">>
C10_qty  == <<"q","t","y">>

\* C10: past the marker line, column_names is the text after its first '#'
\* split on 0x01; on the example stream the header holds the three columns,
\* the three declared types and the provenance demo / widgets / 2024,01,01,
\* and the run emits the one row {id: 1, name: "Alpha", qty: null}.
C10_Example ==
    /\ pc \in {"meta", "hdr_dict"} =>
          header_info.column_names =
              Split(SubSeq(MarkerLine, FirstHash(MarkerLine) + 1,
                           Len(MarkerLine)), SOH)
    /\ (file = ExampleStream /\ pc \notin {"seek", "meta"}) =>
          /\ pc # "hdr_none"
          /\ header_info.column_names = <<C10_id, C10_name, C10_qty>>
          /\ header_info.types = <<T_INTEGER, T_STRING, T_INTEGER>>
          /\ header_info.group = Some(<<"d","e","m","o">>)
          /\ header_info.name = Some(<<"w","i","d","g","e","t","s">>)
          /\ header_info.date =
                Some(<< <<"2","0","2","4">>, <<"0","1">>, <<"0","1">> >>)
    /\ (file = ExampleStream /\ Completed /\ batch_size >= 1) =>
          Emitted = << << <<C10_id, PyInt(1)>>,
                          <<C10_name, PyStr(<<"A","l","p","h","a">>)>>,
                          <<C10_qty, NA>> >> >>

\* C10 witness: the run on the example stream ended, its one row written.
C10_Witness ==
    /\ file = ExampleStream
    /\ Completed
    /\ caller = "main"
    /\ Len(Emitted) = 1
    /\ Emitted[1][1] = <<C10_id, PyInt(1)>>

\* C11: when the text before '#' does not match the provenance pattern, the
\* header is returned with group, name and date absent and the run goes on
\* to its end without a failure, its data lines decoded as they are with a
\* matching prefix.
C11_AbsentProvenanceContinues ==
    (header_info.date = None /\ pc = "done" /\ result # "exit1") =>
        /\ header_info.group = None
        /\ header_info.name = None
        /\ result \in {"written", "nodata", "sink_error"}
        /\ batch_size >= 1 => Emitted = RowsOf(DecodedLines)

\* number of rows handed to the sink so far
RECURSIVE SinkRows(_)
SinkRows(calls) ==
    IF calls = <<>> THEN 0 ELSE Len(Head(calls).rows) + SinkRows(Tail(calls))

C13_RowHasEveryColumn ==
    \A r \in 1..Len(Emitted) :
        /\ Len(Emitted[r]) = Len(header_info.column_names)
        /\ \A i \in 1..Len(header_info.column_names) :
              Emitted[r][i][1] = header_info.column_names[i]

\* a line containing '#', a line starting with '#', the text after the first
\* '#' of a line, and the number of terminated lines read so far
HashLine(l) == \E k \in 1..Len(l) : l[k] = "#"
DirectiveLine(l) == l # <<>> /\ l[1] = "#"
AfterHash(l) == SubSeq(l, FirstHash(l) + 1, Len(l))
LinesRead == Cardinality({q \in 2..pos : file[q-1] = STX /\ file[q] = LF})

\* position of read_header_info: 0 SeekingMarker, 1 ReadingMetadata, 2 ended
HeaderRank(p) == IF p = "seek" THEN 0 ELSE IF p = "meta" THEN 1 ELSE 2

\* the lines read so far are n lines without '#', or such lines, the marker
\* line m and directives only
OnlyDiscarded(ls, n) == \A i \in 1..n : ~HashLine(ls[i])
MarkerThenDirectives(ls, m, n) ==
    /\ HashLine(ls[m]) /\ OnlyDiscarded(ls, m - 1)
    /\ \A i \in (m + 1)..n : DirectiveLine(ls[i])

\* C14: the header extractor only moves forward, SeekingMarker to
\* ReadingMetadata to its end. While it seeks, every line read has no '#' and
\* the schema is untouched; the marker line is the first line with '#'; while
\* it reads metadata every line read after the marker starts with '#' and
\* none has become data; the first line not starting with '#' ends it and is
\* the first data line. column_names changes only on the marker line.
C14_ForwardOnly ==
    /\ [](LET ls == LogicalLines(file)
              n  == LinesRead
          IN  /\ pc = "seek" =>
                    /\ OnlyDiscarded(ls, n)
                    /\ header_info = NewHeader
              /\ pc = "meta" =>
                    \E m \in 1..n :
                        /\ MarkerThenDirectives(ls, m, n)
                        /\ header_info.column_names =
                               Split(AfterHash(ls[m]), SOH)
                        /\ header_info.first_data_line = <<>>
                        /\ line_count = n - m + 1
                        /\ Emitted = <<>> /\ gen = "none"
              /\ pc = "hdr_dict" =>
                    \E m \in 1..(n - 1) :
                        /\ MarkerThenDirectives(ls, m, n - 1)
                        /\ ~DirectiveLine(ls[n])
                        /\ header_info.first_data_line = ls[n]
                        /\ header_info.column_names =
                               Split(AfterHash(ls[m]), SOH)
                        /\ Emitted = <<>> /\ gen = "none")
    /\ [][/\ HeaderRank(pc') >= HeaderRank(pc)
          /\ pc = "seek" => pc' \in {"seek", "meta", "hdr_none"}
          /\ pc = "meta" => pc' \in {"meta", "hdr_dict", "hdr_none"}
          /\ pc \in {"hdr_none", "hdr_dict"} => pc' \notin {"hdr_none", "seek", "meta"}
          /\ header_info'.column_names # header_info.column_names =>
                pc = "seek" /\ pc' = "meta"]_vars

\* header extraction has ended after a discarded line, the marker line and
\* two directives
C14_Witness ==
    /\ pc = "hdr_dict"
    /\ LinesRead = 5
    /\ ~HashLine(LogicalLines(file)[1])
    /\ HashLine(LogicalLines(file)[2])
    /\ header_info.first_data_line = LogicalLines(file)[5]

\* the key and the value of a directive line: the text between the leading
\* '#' and the first ':', and the text after that ':'
HasColon(l) == \E k \in 2..Len(l) : l[k] = ":"
FirstColon(l) ==
    CHOOSE k \in 2..Len(l) : l[k] = ":" /\ \A j \in 2..(k - 1) : l[j] # ":"
KeyOf(l)   == SubSeq(l, 2, FirstColon(l) - 1)
ValueOf(l) == SubSeq(l, FirstColon(l) + 1, Len(l))

\* the schema after the directive line l has been consumed in schema h
AfterDirective(h, l) ==
    IF ~HasColon(l) THEN h
    ELSE IF KeyOf(l) = <<"p","r","i","m","a","r","y","K","e","y">>
         THEN [h EXCEPT !.primary_keys = Split(ValueOf(l), SOH)]
    ELSE IF KeyOf(l) = <<"d","b","T","y","p","e","s">>
         THEN [h EXCEPT !.types = Split(ValueOf(l), SOH)]
    ELSE IF KeyOf(l) = <<"e","x","p","o","r","t","M","o","d","e">>
         THEN [h EXCEPT !.export_mode = <<ValueOf(l)>>]
    ELSE h

\* the step reads the last byte of a line starting with '#' in ReadingMetadata
ConsumesDirective ==
    /\ pc = "meta"
    /\ LinesRead' = LinesRead + 1
    /\ DirectiveLine(LogicalLines(file)[LinesRead'])

\* C15: a directive consumed in ReadingMetadata changes the facet its key
\* names and nothing else: primaryKey the primary keys, dbTypes the declared
\* types, exportMode the export mode, verbatim; an unrecognized key or a line
\* without ':' changes nothing; column names and provenance never change, and
\* the extractor stays in ReadingMetadata without an error.
C15_DirectiveFrame ==
    [][ConsumesDirective =>
          /\ header_info' =
                AfterDirective(header_info, LogicalLines(file)[LinesRead'])
          /\ header_info'.column_names = header_info.column_names
          /\ header_info'.date = header_info.date
          /\ header_info'.group = header_info.group
          /\ header_info'.name = header_info.name
          /\ pc' = "meta" /\ result' = "running" /\ stdout' = stdout]_vars

\* an unrecognized directive and an exportMode directive with a ':' in its
\* value have been consumed
C15_Witness ==
    /\ pc = "hdr_dict"
    /\ \E i \in 1..LinesRead : LogicalLines(file)[i] = D_Unknown
    /\ header_info.export_mode = <<<<"F", ":", "1">>>>
    /\ header_info.primary_keys = <<>>
    /\ header_info.types = <<>>

\* the lines among ls that start with '#'
DirectiveLines(ls) == {i \in 1..Len(ls) : DirectiveLine(ls[i])}

\* C16: once header extraction has ended with a header the schema never
\* changes, and neither do the converters built from it; a line starting
\* with '#' after the first data line is a data line like any other: the rows
\* of a finished run are the rows of the well-formed decoded lines, '#' lines
\* included, and each malformed one has its diagnostic.
C16_SchemaImmutable ==
    /\ []((pc = "done" /\ result \in {"written", "nodata", "sink_error"}
           /\ batch_size >= 1) =>
              /\ Emitted = RowsOf(DecodedLines)
              /\ Len(Emitted) + Len(Skips) = Len(DecodedLines))
    /\ [][/\ pc \notin {"seek", "meta"} => header_info' = header_info
          /\ pc \in {"batch", "flush", "finish", "done"} =>
                converters' = converters]_vars

\* a '#dbTypes:INTEGER' line after the first data line has become the second
\* row and no type is declared
C16_Witness ==
    /\ pc = "done" /\ result = "written"
    /\ header_info.types = <<>>
    /\ header_info.first_data_line = L_Junk
    /\ Len(Emitted) = 2
    /\ Emitted[2] = << <<header_info.column_names[1], PyStr(L_Types1)>> >>

\* C17: a header returned by read_header_info has every primary key among
\* its column names, and no primary key when no primaryKey directive was
\* read.
C17_PrimaryKeysAreColumns ==
    pc = "hdr_dict" =>
        /\ \A i \in 1..Len(header_info.primary_keys) :
              \E j \in 1..Len(header_info.column_names) :
                  header_info.primary_keys[i] = header_info.column_names[j]
        /\ (\A i \in 1..LinesRead :
               LogicalLines(file)[i] \notin {D_PrimaryKey, D_ForeignKey})
           => header_info.primary_keys = <<>>

\* the positions of the last byte of each record terminator, the position
\* where the k-th line ends, and where the line being read at p starts
TerminatorEnds == {q \in 2..Len(file) : file[q-1] = STX /\ file[q] = LF}
LineEnd(k) ==
    CHOOSE q \in TerminatorEnds :
        Cardinality({r \in TerminatorEnds : r <= q}) = k
LineStart(p) ==
    IF \E q \in TerminatorEnds : q <= p
    THEN 1 + CHOOSE q \in TerminatorEnds :
                 q <= p /\ \A r \in TerminatorEnds : r <= p => r <= q
    ELSE 1

\* C18: read_header_info returns with the stream exactly past the
\* terminator of the first data line; every read moves the stream by one byte
\* or not at all; what parse_epf has buffered is the stream from the start of
\* the line it is in up to the byte read last, so its first line starts at
\* the byte after the first data line's terminator and the second data line
\* is decoded whole.
C18_NoLookahead ==
    /\ [](LET ls == LogicalLines(file)
          IN  /\ pc = "hdr_dict" =>
                    /\ FirstDataIndex(ls) > 0
                    /\ pos = LineEnd(FirstDataIndex(ls))
              /\ (pc = "batch" /\ gen \in {"start", "after_first"}) =>
                    pos = LineEnd(FirstDataIndex(ls))
              /\ (pc = "batch" /\ gen = "reading") =>
                    /\ pos >= LineEnd(FirstDataIndex(ls))
                    /\ buffer = SubSeq(file, LineStart(pos), pos)
              /\ (Completed /\ batch_size >= 1 /\ Len(DataLines(file)) >= 2
                  /\ WellFormedLine(DataLines(file)[2])) =>
                    \E r \in 1..Len(Emitted) :
                        Emitted[r] = RowOf(DataLines(file)[2]))
    /\ [][pos' = pos \/ (pos' = pos + 1 /\ pos < Len(file))]_vars

\* two terminated data lines, both well-formed, have become two rows
C18_Witness ==
    /\ Completed /\ batch_size >= 1
    /\ ~HasTail(file)
    /\ Len(DataLines(file)) = 2
    /\ header_info.first_data_line # <<>>
    /\ Len(Emitted) = 2
    /\ Emitted[2] = RowOf(DataLines(file)[2])

\* C19: every run ends. A read moves the stream by one byte or meets its
\* end; read_header_info ends with a header or with None; a pull on a decoder
\* that has already reported the end of the stream finds the batch empty,
\* adds nothing and leaves the loop, after which the batching stops, for
\* every batch_size >= 0 and on every stream.
C19_Terminates ==
    /\ <>(pc \in {"hdr_none", "hdr_dict"})
    /\ <>[](pc = "done")
    /\ []((pc = "batch" /\ gen = "finished") =>
             current_batch = <<>> /\ taken = 0 /\ pos = Len(file))
    /\ [][/\ pos' = pos \/ (pos' = pos + 1 /\ pos < Len(file))
          /\ (pc = "batch" /\ gen = "finished") =>
                pc' = "flush" /\ current_batch' = <<>> /\ gen' = "finished"
          /\ (pc = "flush" /\ current_batch = <<>>) => pc' = "finish"
          /\ pc = "finish" => pc' = "done"]_vars

\* a run with batch_size 1 has ended after two rows: the decoder reported
\* the end of the stream after the second batch was full
C19_Witness ==
    /\ pc = "done"
    /\ batch_size = 1
    /\ gen = "finished"
    /\ Len(all_batches) = 2
    /\ pos = Len(file)

====
